---- MODULE Spec2Model ----
(***************************************************************************)
(* pyrawr: the ThermoRawFileParser wrapper (src/pyrawr.py).                *)
(*                                                                         *)
(* A string is a sequence of atoms (characters, or whole words where the   *)
(* code never looks inside them).  A path is a sequence of components, an  *)
(* absolute one starting with the component "/".  An element of a command  *)
(* line is a token: a literal string, a path, or a "D:D" mount string.     *)
(* Process output is a sequence of bytes, one of which (BadByte) is not    *)
(* valid UTF-8.                                                            *)
(***************************************************************************)
EXTENDS Integers, Sequences, FiniteSets, TLC

VARIABLES
    pc,                  \* position of the handle: new, validating, ready, failed
    executable,          \* self.executable
    docker_image,        \* self.docker_image (empty: None)
    version_requirement, \* self.version_requirement
    installed_version,   \* self.installed_version
    hostCommands,        \* environment: commands the launcher can find
    imageExists,         \* environment: the docker image can be found
    tmpDirs,             \* environment: directories existing under the temp root
    call                 \* the last call made and how it ended

handle == <<executable, docker_image, version_requirement, installed_version>>
env == <<hostCommands, imageExists, tmpDirs>>
vars == <<pc, executable, docker_image, version_requirement, installed_version,
          hostCommands, imageExists, tmpDirs, call>>

\* ---------------------------------------------------------------- bounds
MaxFiles == 2
MaxOptions == 1

\* ---------------------------------------------------------------- strings
None == <<"<None>">>
BadByte == "\\xff"
Whitespace == {" ", "\n"}
Digits == {"0", "1", "2", "3", "4", "5", "6", "7", "8", "9"}

Range(s) == {s[i] : i \in 1..Len(s)}

\* bytes.decode(): strict UTF-8
decode(b) ==
    IF BadByte \in Range(b) THEN [ok |-> FALSE, v |-> <<>>]
    ELSE [ok |-> TRUE, v |-> b]

RECURSIVE lstrip(_)
lstrip(s) ==
    IF s # <<>> /\ Head(s) \in Whitespace THEN lstrip(Tail(s)) ELSE s

RECURSIVE rstrip(_)
rstrip(s) ==
    IF s # <<>> /\ s[Len(s)] \in Whitespace
    THEN rstrip(SubSeq(s, 1, Len(s) - 1)) ELSE s

\* str.strip()
strip(s) == rstrip(lstrip(s))

\* str.split(sep): every occurrence of sep ends a piece, empty pieces kept
RECURSIVE splitAcc(_, _, _)
splitAcc(s, sep, cur) ==
    IF s = <<>> THEN <<cur>>
    ELSE IF Head(s) = sep THEN <<cur>> \o splitAcc(Tail(s), sep, <<>>)
    ELSE splitAcc(Tail(s), sep, Append(cur, Head(s)))

split(s, sep) == splitAcc(s, sep, <<>>)

\* ---------------------------------------------------------------- tokens
Lit(s) == [k |-> "lit", v |-> s]
Word(w) == Lit(<<w>>)
PathTok(p) == [k |-> "path", v |-> p]
MountTok(d) == [k |-> "mount", v |-> d \o <<":">> \o d]

\* ---------------------------------------------------------------- paths
cwd == <<"/", "home">>

isabs(p) == p # <<>> /\ Head(p) = "/"

RECURSIVE normAcc(_, _)
normAcc(acc, rest) ==
    IF rest = <<>> THEN acc
    ELSE IF Head(rest) = "." THEN normAcc(acc, Tail(rest))
    ELSE IF Head(rest) = ".."
         THEN normAcc(IF Len(acc) > 1 THEN SubSeq(acc, 1, Len(acc) - 1) ELSE acc,
                      Tail(rest))
    ELSE normAcc(Append(acc, Head(rest)), Tail(rest))

\* os.path.abspath: join with the working directory, then normalise
abspath(p) ==
    IF isabs(p) THEN normAcc(<<"/">>, Tail(p))
    ELSE normAcc(<<"/">>, Tail(cwd) \o p)

\* os.path.dirname
dirname(p) ==
    IF isabs(p) THEN (IF Len(p) <= 2 THEN <<"/">> ELSE SubSeq(p, 1, Len(p) - 1))
    ELSE (IF Len(p) <= 1 THEN <<>> ELSE SubSeq(p, 1, Len(p) - 1))

\* os.path.join(dir, name)
join(d, name) == Append(d, name)

\* ---------------------------------------------------------------- json
\* json.loads on the texts of nested lists: "[]", "[[]]", ...; the value is
\* the nesting depth.  Surrounding whitespace is accepted.
RECURSIVE listDepth(_)
listDepth(s) ==
    IF Len(s) < 2 \/ Head(s) # "[" \/ s[Len(s)] # "]" THEN -1
    ELSE IF Len(s) = 2 THEN 1
    ELSE LET inner == listDepth(SubSeq(s, 2, Len(s) - 1))
         IN IF inner = -1 THEN -1 ELSE inner + 1

json_loads(s) ==
    LET d == listDepth(strip(s))
    IN [ok |-> d # -1, v |-> d]

\* ---------------------------------------------------------------- semver
RECURSIVE toInt(_)
toInt(s) ==
    IF s = <<>> THEN 0
    ELSE 10 * toInt(SubSeq(s, 1, Len(s) - 1))
         + (CHOOSE n \in 0..9 : <<"0", "1", "2", "3", "4", "5", "6", "7", "8", "9">>[n + 1] = s[Len(s)])

isNumeric(s) ==
    /\ s # <<>>
    /\ Range(s) \subseteq Digits
    /\ (Len(s) > 1 => Head(s) # "0")

\* semver.VersionInfo.parse: major.minor.patch, anything else is a ValueError
semver_parse(s) ==
    LET parts == split(s, ".")
    IN IF Len(parts) = 3 /\ \A i \in 1..3 : isNumeric(parts[i])
       THEN [ok |-> TRUE, v |-> <<toInt(parts[1]), toInt(parts[2]), toInt(parts[3])>>]
       ELSE [ok |-> FALSE, v |-> <<0, 0, 0>>]

\* semver.compare on parsed versions: -1, 0, 1
semver_compare(a, b) ==
    IF a[1] # b[1] THEN (IF a[1] < b[1] THEN -1 ELSE 1)
    ELSE IF a[2] # b[2] THEN (IF a[2] < b[2] THEN -1 ELSE 1)
    ELSE IF a[3] # b[3] THEN (IF a[3] < b[3] THEN -1 ELSE 1)
    ELSE 0

\* semver.match(version, match_expr): [ok |-> FALSE] is the ValueError
semver_match(version, match_expr) ==
    LET two == IF Len(match_expr) >= 2 THEN SubSeq(match_expr, 1, 2) ELSE <<>>
        one == IF Len(match_expr) >= 1 THEN SubSeq(match_expr, 1, 1) ELSE <<>>
        prefix == IF two \in {<<">", "=">>, <<"<", "=">>, <<"=", "=">>, <<"!", "=">>} THEN two
                  ELSE IF one \in {<<">">>, <<"<">>} THEN one
                  ELSE <<>>
        rest == SubSeq(match_expr, Len(prefix) + 1, Len(match_expr))
        a == semver_parse(version)
        b == semver_parse(rest)
        c == semver_compare(a.v, b.v)
    IN IF prefix = <<>> \/ ~a.ok \/ ~b.ok THEN [ok |-> FALSE, v |-> FALSE]
       ELSE [ok |-> TRUE,
             v |-> CASE prefix = <<">", "=">> -> c >= 0
                     [] prefix = <<"<", "=">> -> c <= 0
                     [] prefix = <<"=", "=">> -> c = 0
                     [] prefix = <<"!", "=">> -> c # 0
                     [] prefix = <<">">> -> c > 0
                     [] prefix = <<"<">> -> c < 0]

\* ---------------------------------------------------------------- inputs
Executables == {<<"trfp">>, <<"mono", " ", "TRFP.exe">>}
Images == {<<>>, <<"quay.io/trfp">>}
AllCommands == {<<"trfp">>, <<"docker">>}
TmpNames == {"tmpA", "tmpB"}
InputFiles == {<<"/", "data", "a.raw">>, <<"x", "..", "b.raw">>}
RunFiles == {<<"b.raw">>, <<"/", "home", "x", "..", "c.raw">>}
FormatNames == {"", "MZML", "bogus"}
ScanRanges == {<<"508,680">>}
\* a passthrough option that names an output file
PassTokens == {PathTok(<<"/", "out", "o.mgf">>)}

VersionStdouts ==
    { <<"1", ".", "3", ".", "2", "\n">>,
      <<"1", ".", "3", ".", "3", "\n">>,
      <<" ", "1", ".", "1", "0", ".", "0">>,
      <<"1", ".", "3">>,
      <<"T", "R", "F", "P">>,
      <<BadByte>> }
JsonStdouts == { <<" ", "[", "[", "]", "]", "\n">>, <<"[">>, <<BadByte>> }
Stderrs == { <<"e", "r", "r", "\n">>, <<BadByte>> }
Absent == <<"<absent>">>
MetaFiles == { Absent, <<"[", "]">>, <<"[", "[", "]">> }

Outcomes(stdouts) ==
    {[rc |-> 0, stdout |-> o, stderr |-> <<>>] : o \in stdouts}
    \cup {[rc |-> 1, stdout |-> <<>>, stderr |-> e] : e \in Stderrs}

SeqsUpTo(S, n) == UNION {[1..m -> S] : m \in 0..n}
Orders(S) == {s \in [1..Cardinality(S) -> S] : Range(s) = S}

\* ---------------------------------------------------------------- executor
NoOutcome == [rc |-> -1, stdout |-> <<>>, stderr |-> <<>>]
ImageMissing == [rc |-> 125, stdout |-> <<>>, stderr |-> <<"Unable to find image">>]
NoMsg == [cmd |-> <<>>, text |-> <<>>]

\* str(o) of one option
str(o) == IF o.k = "int" THEN Lit(o.v) ELSE o

\* mutant: the parent directories of the files as given
file_paths_as_given(files) == {dirname(files[i]) : i \in 1..Len(files)}

\* the distinct parent directories of the absolute forms of the files
file_paths(files) == {dirname(abspath(files[i])) : i \in 1..Len(files)}

RECURSIVE docker_args(_)
docker_args(order) ==
    IF order = <<>> THEN <<>>
    ELSE <<Word("-v"), MountTok(Head(order))>> \o docker_args(Tail(order))

executable_tokens(exe) ==
    LET pieces == split(exe, " ") IN [i \in 1..Len(pieces) |-> Lit(pieces[i])]

\* the command of the direct mode
direct_cmd(exe, options) == <<Lit(exe)>> \o options

\* the command line _run_command builds; order is the iteration order of the
\* set of directories
build_cmd(options, files, order) ==
    IF docker_image # <<>>
    THEN <<Word("docker"), Word("run")>>
         \o (IF files # <<>> THEN docker_args(order) ELSE <<>>)
         \o <<Lit(docker_image)>>
         \o executable_tokens(executable)
         \o options
    ELSE direct_cmd(executable, options)

\* what the launcher cannot find: "command" (FileNotFoundError), "image"
\* (docker itself starts and reports it), or "none"
missing_of(cmd) ==
    IF Head(cmd).v \notin hostCommands THEN "command"
    ELSE IF Head(cmd) = Word("docker") /\ ~imageExists THEN "image"
    ELSE "none"

\* subprocess.run(cmd, check=False, capture_output=True)
subprocess_run(cmd, toolOut) ==
    CASE missing_of(cmd) = "command" -> [found |-> FALSE, out |-> NoOutcome]
      [] missing_of(cmd) = "image" -> [found |-> TRUE, out |-> ImageMissing]
      [] OTHER -> [found |-> TRUE, out |-> toolOut]

_run_command(opts, files, check, order, toolOut) ==
    LET options == [i \in 1..Len(opts) |-> str(opts[i])]
        cmd == build_cmd(options, files, order)
        p == subprocess_run(cmd, toolOut)
        err == decode(p.out.stderr)
        base == [cmd |-> cmd, missing |-> missing_of(cmd), launched |-> p.found,
                 out |-> p.out, raised |-> "none", msg |-> NoMsg]
    IN IF ~p.found
       THEN [base EXCEPT !.raised = "InstallationError",
                         !.msg = [cmd |-> <<Head(cmd)>>, text |-> <<"No such file or directory">>]]
       ELSE IF check /\ p.out.rc # 0
       THEN IF err.ok
            THEN [base EXCEPT !.raised = "RunError",
                              !.msg = [cmd |-> cmd, text |-> err.v]]
            ELSE [base EXCEPT !.raised = "UnicodeDecodeError"]
       ELSE base

\* the nondeterminism of one call of _run_command: the iteration order of
\* the set of directories (docker mode only) and what the tool does (only
\* when the launcher finds the command and the image)
Choices(files, outs) ==
    {[order |-> o, out |-> t] :
        o \in (IF docker_image # <<>> THEN Orders(file_paths(files)) ELSE {<<>>}),
        t \in (IF missing_of(build_cmd(<<>>, files, <<>>)) = "none" THEN outs
               ELSE {NoOutcome})}

\* ---------------------------------------------------------------- handle
NoCall ==
    [op |-> "none", options |-> <<>>, files |-> <<>>, check |-> TRUE,
     run |-> [cmd |-> <<>>, missing |-> "none", launched |-> FALSE,
              out |-> NoOutcome, raised |-> "none", msg |-> NoMsg],
     raised |-> "none", msg |-> NoMsg, result |-> -1, tmp |-> "none",
     docker |-> FALSE, pass |-> <<>>]

\* the record of a call: what was handed to _run_command, what it did, how
\* the operation ended; pass is the caller's passthrough options
Call(op, options, files, check, r, raised, msg, result, tmp) ==
    [op |-> op, options |-> options, files |-> files, check |-> check, run |-> r,
     raised |-> raised, msg |-> msg, result |-> result, tmp |-> tmp,
     docker |-> docker_image # <<>>, pass |-> <<>>]

Init ==
    /\ pc = "new"
    /\ executable = <<>>
    /\ docker_image = <<>>
    /\ version_requirement = <<>>
    /\ installed_version = None
    /\ hostCommands \in SUBSET AllCommands
    /\ imageExists \in BOOLEAN
    /\ tmpDirs = {"tmpA"}
    /\ call = NoCall

\* mutant: installed_version starts as the required version
init_fields_preset(exe, img) ==
    [executable |-> exe, docker_image |-> img,
     version_requirement |-> <<">", "=", "1", ".", "3", ".", "3">>,
     installed_version |-> <<"1", ".", "3", ".", "3">>]

\* the assignments of __init__
init_fields(exe, img) ==
    [executable |-> exe, docker_image |-> img,
     version_requirement |-> <<">", "=", "1", ".", "3", ".", "3">>,
     installed_version |-> None]

\* __init__ up to the call of _validate_install
New ==
    /\ pc = "new"
    /\ \E exe \in Executables, img \in Images :
         LET f == init_fields(exe, img)
         IN /\ executable' = f.executable
            /\ docker_image' = f.docker_image
            /\ version_requirement' = f.version_requirement
            /\ installed_version' = f.installed_version
    /\ pc' = "validating"
    /\ UNCHANGED <<env, call>>

_validate_install ==
    /\ pc = "validating"
    /\ \E c \in Choices(<<>>, Outcomes(VersionStdouts)) :
         LET opts == <<Word("--version")>>
             r == _run_command(opts, <<>>, TRUE, c.order, c.out)
             so == decode(r.out.stdout)
             se == decode(r.out.stderr)
             v == strip(so.v)
             m == semver_match(v, version_requirement)
             raised ==
                 IF r.raised # "none" THEN r.raised
                 ELSE IF r.out.rc # 0
                      THEN (IF se.ok THEN "InstallationError" ELSE "UnicodeDecodeError")
                 ELSE IF ~so.ok THEN "UnicodeDecodeError"
                 ELSE IF ~m.ok THEN "ValueError"
                 ELSE IF ~m.v THEN "InstallationError"
                 ELSE "none"
             msg ==
                 IF r.raised # "none" THEN r.msg
                 ELSE IF r.out.rc # 0 /\ se.ok THEN [cmd |-> <<>>, text |-> strip(se.v)]
                 ELSE IF raised = "InstallationError"
                      THEN [cmd |-> <<>>,
                            text |-> <<"Installed version ">> \o v
                                     \o <<" does not match requirement ">>
                                     \o version_requirement]
                 ELSE NoMsg
         IN /\ installed_version' =
                  IF r.raised = "none" /\ r.out.rc = 0 /\ so.ok THEN v
                  ELSE installed_version
            /\ pc' = IF raised = "none" THEN "ready" ELSE "failed"
            /\ call' = Call("validate", opts, <<>>, TRUE, r, raised, msg, -1, "none")
    /\ UNCHANGED <<executable, docker_image, version_requirement, env>>

\* ---------------------------------------------------------------- operations
formats == [mgf |-> "0", mzml |-> "1", indexed_mzml |-> "2", parquet |-> "3",
            scan_info |-> "4"]

\* str.lower() on the format names used as inputs
lower(name) == IF name = "MZML" THEN "mzml" ELSE name

\* tempfile.TemporaryDirectory().__enter__: a directory that did not exist
TemporaryDirectory_enter(dirs, d) == dirs \cup {d}

\* mutant: the directory is removed only when the block ends normally
TemporaryDirectory_exit_on_success(dirs, d, raised) ==
    IF raised = "none" THEN dirs \ {d} ELSE dirs

\* tempfile.TemporaryDirectory().__exit__, run however the block is left
TemporaryDirectory_exit(dirs, d, raised) == dirs \ {d}

\* mutant: the output file is left out of the files
metadata_files_input_only(input_file, output_file) == <<input_file>>

\* the files metadata hands to _run_command
metadata_files(input_file, output_file) == <<input_file, output_file>>

\* json.loads(cmd_out.stdout.decode().strip())
decode_stdout(out) ==
    LET t == decode(out.stdout)
        j == json_loads(strip(t.v))
    IN IF ~t.ok THEN [raised |-> "UnicodeDecodeError", v |-> -1]
       ELSE IF ~j.ok THEN [raised |-> "JSONDecodeError", v |-> -1]
       ELSE [raised |-> "none", v |-> j.v]

\* with open(output_file) as f: json.load(f)
load_file(content) ==
    LET j == json_loads(content)
    IN IF content = Absent THEN [raised |-> "FileNotFoundError", v |-> -1]
       ELSE IF ~j.ok THEN [raised |-> "JSONDecodeError", v |-> -1]
       ELSE [raised |-> "none", v |-> j.v]

parse ==
    /\ pc = "ready"
    /\ \E input \in InputFiles, output_format \in FormatNames,
          options \in SeqsUpTo(PassTokens, MaxOptions) :
         LET input_file == abspath(input)
             files == <<input_file>>
             unknown == output_format # "" /\ lower(output_format) \notin DOMAIN formats
             cmd_options ==
                 <<Word("-i"), PathTok(input_file)>>
                 \o (IF output_format # "" /\ ~unknown
                     THEN <<Word("-f"), Word(formats[lower(output_format)])>>
                     ELSE <<>>)
                 \o options
         IN IF unknown
            THEN call' = Call("parse", <<>>, <<>>, TRUE, NoCall.run, "KeyError", NoMsg,
                              -1, "none")
            ELSE \E c \in Choices(files, Outcomes({<<>>})) :
                   LET r == _run_command(cmd_options, files, TRUE, c.order, c.out)
                   IN call' = [Call("parse", cmd_options, files, TRUE, r, r.raised,
                                    r.msg, -1, "none") EXCEPT !.pass = options]
    /\ UNCHANGED <<pc, handle, env>>

metadata ==
    /\ pc = "ready"
    /\ \E input \in InputFiles, d \in TmpNames \ tmpDirs :
         LET input_file == abspath(input)
             tmp_dir == <<"/", "tmp", d>>
             output_file == join(tmp_dir, "meta.json")
             cmd_options == <<Word("-i"), PathTok(input_file), Word("-c"),
                              PathTok(output_file), Word("-m"), Word("0")>>
             files == metadata_files(input_file, output_file)
         IN \E c \in Choices(files, Outcomes({<<>>})) :
            \* the tool writes the file only if it ran and succeeded
            \E content \in (IF c.out.rc = 0 THEN MetaFiles ELSE {Absent}) :
              LET r == _run_command(cmd_options, files, TRUE, c.order, c.out)
                  m == load_file(content)
                  raised == IF r.raised # "none" THEN r.raised ELSE m.raised
                  result == IF raised = "none" THEN m.v ELSE -1
              IN /\ tmpDirs' = TemporaryDirectory_exit(
                                   TemporaryDirectory_enter(tmpDirs, d), d, raised)
                 /\ call' = Call("metadata", cmd_options, files, TRUE, r, raised,
                                 r.msg, result, d)
    /\ UNCHANGED <<pc, handle, hostCommands, imageExists>>

query ==
    /\ pc = "ready"
    /\ \E input \in InputFiles, scans \in ScanRanges,
          options \in SeqsUpTo(PassTokens, MaxOptions) :
         LET input_file == abspath(input)
             files == <<input_file>>
             cmd_options == <<Word("query"), Word("-i"), PathTok(input_file),
                              Word("-n"), Lit(scans), Word("-s")>> \o options
         IN \E c \in Choices(files, Outcomes(JsonStdouts)) :
              LET r == _run_command(cmd_options, files, TRUE, c.order, c.out)
                  j == decode_stdout(r.out)
                  raised == IF r.raised # "none" THEN r.raised ELSE j.raised
                  result == IF raised = "none" THEN j.v ELSE -1
              IN call' = [Call("query", cmd_options, files, TRUE, r, raised, r.msg,
                               result, "none") EXCEPT !.pass = options]
    /\ UNCHANGED <<pc, handle, env>>

xic ==
    /\ pc = "ready"
    /\ \E input \in InputFiles, base64 \in BOOLEAN, d \in TmpNames \ tmpDirs :
         LET input_file == abspath(input)
             tmp_dir == <<"/", "tmp", d>>
             query_file == join(tmp_dir, "query.json")
             cmd_options == <<Word("xic"), Word("-i"), PathTok(input_file), Word("-j"),
                              PathTok(query_file), Word("-s")>>
                            \o (IF base64 THEN <<Word("--base64")>> ELSE <<>>)
             files == <<input_file, query_file>>
         IN \E c \in Choices(files, Outcomes(JsonStdouts)) :
              LET r == _run_command(cmd_options, files, TRUE, c.order, c.out)
                  j == decode_stdout(r.out)
                  raised == IF r.raised # "none" THEN r.raised ELSE j.raised
                  result == IF raised = "none" THEN j.v ELSE -1
              IN /\ tmpDirs' = TemporaryDirectory_exit(
                                   TemporaryDirectory_enter(tmpDirs, d), d, r.raised)
                 /\ call' = Call("xic", cmd_options, files, TRUE, r, raised, r.msg,
                                 result, d)
    /\ UNCHANGED <<pc, handle, hostCommands, imageExists>>

\* a call of _run_command itself, with any files list and either check
run ==
    /\ pc = "ready"
    /\ \E files \in SeqsUpTo(RunFiles, MaxFiles), check \in BOOLEAN :
         \E c \in Choices(files, Outcomes({<<"o", "k">>})) :
           LET options == <<Word("-L"), [k |-> "int", v |-> <<"2">>]>>
               r == _run_command(options, files, check, c.order, c.out)
           IN call' = Call("run", options, files, check, r, r.raised, r.msg, -1, "none")
    /\ UNCHANGED <<pc, handle, env>>

\* the environment changes under a constructed handle: commands and the
\* image are installed or removed
EnvChange ==
    /\ pc = "ready"
    /\ hostCommands' \in SUBSET AllCommands
    /\ imageExists' \in BOOLEAN
    /\ <<hostCommands', imageExists'>> # <<hostCommands, imageExists>>
    /\ UNCHANGED <<pc, handle, tmpDirs, call>>

Next ==
    \/ New
    \/ _validate_install
    \/ parse
    \/ metadata
    \/ query
    \/ xic
    \/ run
    \/ EnvChange

Spec == Init /\ [][Next]_vars

\* ---------------------------------------------------------------- claims
Operations == {"parse", "metadata", "query", "xic"}
Built == call.run.cmd # <<>>
Launched == call.run.launched
StrOptions == [i \in 1..Len(call.options) |-> str(call.options[i])]
StderrText == decode(call.run.out.stderr)
StdoutText == decode(call.run.out.stdout)

\* C1: a version probe that starts and exits non-zero ends construction with
\* ThermoRawFileParserInstallationError whose message is the captured
\* standard-error text, in direct and in docker mode.
C1_ProbeNonZeroIsInstallationError ==
    (call.op = "validate" /\ Launched /\ call.run.out.rc # 0)
        => /\ call.raised = "InstallationError"
           /\ StderrText.ok => call.msg.text = strip(StderrText.v)

\* C2: for every version string V on the stdout of a probe that exits 0,
\* construction succeeds exactly when trimmed V satisfies ">=1.3.3"; when
\* it does not, construction raises ThermoRawFileParserInstallationError;
\* when it does, installed_version is trimmed V; no operation runs on a
\* handle whose validation did not succeed.
C2_VersionGating ==
    /\ (call.op = "validate" /\ Launched /\ call.run.out.rc = 0 /\ StdoutText.ok)
          => LET V == strip(StdoutText.v)
                 m == semver_match(V, version_requirement)
                 satisfies == m.ok /\ m.v
             IN /\ (pc = "ready") <=> satisfies
                /\ ~satisfies => call.raised = "InstallationError"
                /\ satisfies => installed_version = V
    /\ call.op \in Operations => pc = "ready"

\* C3: when the process is launched and exits non-zero, _run_command with
\* check=True raises ThermoRawFileParserRunError whose message holds the
\* command and the stderr text; with check=False, or with exit code 0, it
\* raises nothing and returns the outcome.
C3_RunCommandCheck ==
    (call.op # "none" /\ Launched)
        => IF call.check /\ call.run.out.rc # 0
           THEN /\ call.run.raised = "RunError"
                /\ call.run.msg.cmd = call.run.cmd
                /\ StderrText.ok => call.run.msg.text = StderrText.v
           ELSE call.run.raised = "none"

\* C4: when the launcher cannot find the command or the image, the call
\* ends with ThermoRawFileParserInstallationError, at construction and at
\* call time, in direct and in docker mode.
C4_NotFoundIsInstallationError ==
    (call.op # "none" /\ Built /\ call.run.missing # "none")
        => call.raised = "InstallationError"

\* C5: when the tool exits 0 but its output cannot be decoded (meta.json
\* absent or malformed for metadata, stdout not JSON for query and xic), the
\* caller receives ThermoRawFileParserRunError and nothing else.
C5_DecodeFailureIsRunError ==
    (call.op \in {"metadata", "query", "xic"} /\ Launched /\ call.run.out.rc = 0
     /\ call.raised # "none")
        => call.raised = "RunError"

\* C6: the temporary directory a call of metadata or xic creates did not
\* exist before the call and does not exist after it, however the call ends;
\* the call leaves the other temporary directories as they were.
C6_TempDirScoped ==
    [][call'.op \in {"metadata", "xic"}
          => /\ call'.tmp \in TmpNames
             /\ call'.tmp \notin tmpDirs
             /\ call'.tmp \notin tmpDirs'
             /\ tmpDirs' = tmpDirs]_vars

C6_Witness ==
    /\ call.op = "metadata"
    /\ Launched
    /\ call.run.out.rc = 0
    /\ call.raised = "JSONDecodeError"
    /\ call.tmp \notin tmpDirs

\* C7: in docker mode the command is "docker", "run", then one pair
\* ("-v", "D:D") for each distinct parent directory D of the absolute forms
\* of the files and no other, none for an empty files list, then the image,
\* the tokens of the executable, and the argument vector.
C7_DockerMounts ==
    (call.op # "none" /\ Built /\ call.docker)
        => LET cmd == call.run.cmd
               D == {dirname(abspath(call.files[i])) : i \in 1..Len(call.files)}
               n == Cardinality(D)
           IN /\ Len(cmd) >= 2 * n + 3
              /\ cmd[1] = Word("docker")
              /\ cmd[2] = Word("run")
              /\ \A i \in 1..n : cmd[2 * i + 1] = Word("-v")
              /\ {cmd[2 * i + 2] : i \in 1..n} = {MountTok(d) : d \in D}
              /\ cmd[2 * n + 3] = Lit(docker_image)
              /\ SubSeq(cmd, 2 * n + 4, Len(cmd))
                     = executable_tokens(executable) \o StrOptions

C7_Witness ==
    /\ call.op = "run"
    /\ call.docker
    /\ Launched
    /\ call.files = <<<<"b.raw">>, <<"/", "home", "x", "..", "c.raw">>>>
    /\ executable = <<"mono", " ", "TRFP.exe">>
    /\ call.run.cmd = <<Word("docker"), Word("run"), Word("-v"),
                        MountTok(<<"/", "home">>), Lit(docker_image),
                        Word("mono"), Word("TRFP.exe"), Word("-L"), Word("2")>>

\* C8: in direct mode the command is the executable split into its tokens,
\* followed by the argument vector.
C8_DirectCommandSplit ==
    (call.op # "none" /\ Built /\ ~call.docker)
        => call.run.cmd = executable_tokens(executable) \o StrOptions

\* C9 (as stated): every path in the argument vector that parse, metadata,
\* query or xic hands to _run_command is in the files handed to it, and in
\* docker mode its parent directory is mounted.
C9_EveryPathInFiles ==
    (call.op \in Operations /\ Built)
        => \A i \in 1..Len(call.options) :
              call.options[i].k = "path"
                  => /\ call.options[i].v \in Range(call.files)
                     /\ call.docker
                           => MountTok(dirname(call.options[i].v)) \in Range(call.run.cmd)

\* C9 (amended): every path the operation itself puts in the argument
\* vector (the absolute input file, the temporary output or query file) is
\* in the files handed to _run_command, and in docker mode its parent
\* directory is mounted; the caller's passthrough options follow verbatim.
C9_BuiltPathsInFiles ==
    (call.op \in Operations /\ Built)
        => LET own == Len(call.options) - Len(call.pass)
           IN /\ own >= 2
              /\ SubSeq(call.options, own + 1, Len(call.options)) = call.pass
              /\ \E i \in 1..own : call.options[i].k = "path"
              /\ \A i \in 1..own :
                    call.options[i].k = "path"
                        => /\ isabs(call.options[i].v)
                           /\ call.options[i].v \in Range(call.files)
                           /\ call.docker
                                 => MountTok(dirname(call.options[i].v))
                                        \in Range(call.run.cmd)

C9_Witness ==
    /\ call.op = "metadata"
    /\ call.docker
    /\ Launched
    /\ call.run.out.rc = 0
    /\ PathTok(<<"/", "tmp", call.tmp, "meta.json">>) \in Range(call.options)

\* C10: installed_version is null until validation, is written only by the
\* validation at construction, and a constructed handle's executable,
\* docker_image, version_requirement and installed_version are left
\* unchanged by every later call, whether it succeeds or fails.
C10_HandleImmutable ==
    [][/\ pc \in {"new", "validating"} => installed_version = None
       /\ installed_version' # installed_version => pc = "validating"
       /\ pc = "validating" => <<executable, docker_image, version_requirement>>'
                                  = <<executable, docker_image, version_requirement>>
       /\ pc = "ready" => handle' = handle /\ pc' = "ready"]_vars

C10_Witness ==
    /\ pc = "ready"
    /\ call.op = "query"
    /\ call.raised = "JSONDecodeError"
    /\ installed_version = <<"1", ".", "1", "0", ".", "0">>
====
